---- MODULE Spec2Model ----
(***************************************************************************)
(* A model of the in-memory B+ tree of package bptree: the tree            *)
(* (BPlusTree), its nodes, the pointer slots and the iterator.             *)
(*                                                                         *)
(* Keys are byte sequences (TLA+ sequences of naturals); a nil []byte and  *)
(* a zero-length []byte are both <<>>, as bytes.Compare cannot tell them   *)
(* apart.  Values are opaque and are modelled as positive naturals.        *)
(* Nodes live in a heap `nodes` (a node's identity is its index, 0 is the  *)
(* nil node); the *pointer objects that hold a value live in `pdata`, so   *)
(* that two slots holding the same *pointer see each other's writes.       *)
(* Go slices are functions over 0..len-1.                                  *)
(*                                                                         *)
(* Every Go function is an operator from a machine record                  *)
(*   [bpt, nodes, pdata, err, rv, rok, rk]                                 *)
(* to a machine record; err is "" while the call runs normally, "panic"    *)
(* after a run-time panic (nil dereference, failed type assertion, index   *)
(* out of range) and "hang" when a loop can never end; rv, rok (and rk,    *)
(* for a key) hold what the function returns.                              *)
(***************************************************************************)
EXTENDS Integers, Sequences, FiniteSets, TLC

VARIABLES
    ctor,      \* "none" before NewBPlusTree, then "ok" or "error" (its result)
    bpt,       \* the BPlusTree struct
    nodes,     \* heap of node structs
    pdata,     \* heap of the *pointer objects that hold a value: their data
    status,    \* "" | "panic" | "hang": how the last call ended
    call,      \* the last call made on the tree, its arguments and results
    expected,  \* the contents a caller expects: key -> value, 0 when absent
    hist,      \* what kinds of calls were made so far
    nops,      \* number of Put and Delete calls made
    iter       \* the Iterator the caller holds: its fields next and i

vars == <<ctor, bpt, nodes, pdata, status, call, expected, hist, nops, iter>>

----------------------------------------------------------------------------
(* Bounds of the model *)

\* Put and Delete calls made on one tree
MaxOps == 6

\* the largest branching order given to SetOrder
MaxOrder == 4

\* the most options given to NewBPlusTree
MaxOptions == 1

\* the orders given to SetOrder: invalid ones (below 3) and valid ones
OrderArgs == 1..MaxOrder

\* the option lists given to NewBPlusTree
OptionLists == UNION {[1..n -> OrderArgs] : n \in 0..MaxOptions}

\* the keys the caller uses, in ascending byte order: the zero-length key
\* and longer ones
KeySeq == << <<>>, <<1>>, <<1, 2>>, <<2>>, <<3>> >>

Keys == {KeySeq[i] : i \in DOMAIN KeySeq}

KeyIndex(k) == CHOOSE i \in DOMAIN KeySeq : KeySeq[i] = k

\* the values the caller stores: two per key, no value shared by two keys; a
\* Put writes the first when the caller does not expect the key to hold it,
\* and the second otherwise, so that a Put of a key expected to be present
\* always changes the value
FirstValue(k) == 2 * KeyIndex(k) - 1

SecondValue(k) == 2 * KeyIndex(k)

Values == {FirstValue(k) : k \in Keys} \cup {SecondValue(k) : k \in Keys}

ValueToPut(k, exp) == IF exp[k] = FirstValue(k) THEN SecondValue(k) ELSE FirstValue(k)

----------------------------------------------------------------------------
(* Constants of the program *)

defaultOrder == 4

NilNode == 0

NilVal == 0

----------------------------------------------------------------------------
(* Go built-ins and the standard library *)

\* bytes.Compare: lexicographic order of byte sequences, -1, 0 or 1.
RECURSIVE Compare(_, _)
Compare(a, b) ==
    IF a = <<>> /\ b = <<>> THEN 0
    ELSE IF a = <<>> THEN -1
    ELSE IF b = <<>> THEN 1
    ELSE IF Head(a) < Head(b) THEN -1
    ELSE IF Head(a) > Head(b) THEN 1
    ELSE Compare(Tail(a), Tail(b))

\* copy(dst, src) on byte slices: min(len(dst), len(src)) bytes are copied.
GoCopy(dst, src) ==
    [i \in 1..Len(dst) |-> IF i <= Len(src) THEN src[i] ELSE dst[i]]

\* s[lo:hi] of a slice, as the sequence of its elements.
Slice(s, lo, hi) == [i \in 1..(hi - lo) |-> s[lo + i - 1]]

\* copy(dst, src) on slices of keys or pointers; src is a Slice.
CopyTo(dst, src) ==
    [i \in DOMAIN dst |-> IF i < Len(src) THEN src[i + 1] ELSE dst[i]]

\* len(s) of a slice.
GoLen(s) == Cardinality(DOMAIN s)

ceil(a, b) == IF a % b = 0 THEN a \div b ELSE a \div b + 1

----------------------------------------------------------------------------
(* pointer: nil, a *pointer holding a value, or a *pointer holding a node *)

NilP == [kind |-> "nil", ref |-> 0]

ValP(i) == [kind |-> "val", ref |-> i]

NodeP(n) == [kind |-> "node", ref |-> n]

\* p.convertToNode() does not panic
IsNodeP(p) == p.kind = "node"

\* p.convertToValue() does not panic
IsValP(p) == p.kind = "val"

----------------------------------------------------------------------------
(* The machine: reads and writes of the heap, with Go's run-time checks *)

Failed(m) == m.err # ""

Panic(m) == IF Failed(m) THEN m ELSE [m EXCEPT !.err = "panic"]

Hang(m) == IF Failed(m) THEN m ELSE [m EXCEPT !.err = "hang"]

\* a statement that panics unless cond
Chk(m, cond) == IF Failed(m) \/ cond THEN m ELSE Panic(m)

Ret(m, v, ok) == IF Failed(m) THEN m ELSE [m EXCEPT !.rv = v, !.rok = ok]

IsNode(m, n) == n \in DOMAIN m.nodes

KeyIdx(m, n, i) == IsNode(m, n) /\ i \in DOMAIN m.nodes[n].keys

PtrIdx(m, n, i) == IsNode(m, n) /\ i \in DOMAIN m.nodes[n].pointers

RdKey(m, n, i) == IF KeyIdx(m, n, i) THEN m.nodes[n].keys[i] ELSE <<>>

RdPtr(m, n, i) == IF PtrIdx(m, n, i) THEN m.nodes[n].pointers[i] ELSE NilP

RdKeyNums(m, n) == IF IsNode(m, n) THEN m.nodes[n].keyNums ELSE 0

RdParent(m, n) == IF IsNode(m, n) THEN m.nodes[n].parent ELSE NilNode

RdLeaf(m, n) == IF IsNode(m, n) THEN m.nodes[n].leaf ELSE FALSE

LenKeys(m, n) == IF IsNode(m, n) THEN GoLen(m.nodes[n].keys) ELSE 0

LenPointers(m, n) == IF IsNode(m, n) THEN GoLen(m.nodes[n].pointers) ELSE 0

WrKey(m, n, i, k) ==
    IF Failed(m) THEN m
    ELSE IF ~KeyIdx(m, n, i) THEN Panic(m)
    ELSE [m EXCEPT !.nodes[n].keys[i] = k]

WrPtr(m, n, i, p) ==
    IF Failed(m) THEN m
    ELSE IF ~PtrIdx(m, n, i) THEN Panic(m)
    ELSE [m EXCEPT !.nodes[n].pointers[i] = p]

WrKeyNums(m, n, v) ==
    IF Failed(m) THEN m
    ELSE IF ~IsNode(m, n) THEN Panic(m)
    ELSE [m EXCEPT !.nodes[n].keyNums = v]

WrParent(m, n, p) ==
    IF Failed(m) THEN m
    ELSE IF ~IsNode(m, n) THEN Panic(m)
    ELSE [m EXCEPT !.nodes[n].parent = p]

\* n.keyNums += d
AddKeyNums(m, n, d) == WrKeyNums(m, n, RdKeyNums(m, n) + d)

\* n.keys[i] = n2.keys[j]
CpKey(m, n, i, n2, j) == WrKey(Chk(m, KeyIdx(m, n2, j)), n, i, RdKey(m, n2, j))

\* n.pointers[i] = n2.pointers[j]
CpPtr(m, n, i, n2, j) == WrPtr(Chk(m, PtrIdx(m, n2, j)), n, i, RdPtr(m, n2, j))

\* p.convertToNode().parent = par
SetParentOf(m, p, par) == WrParent(Chk(m, IsNodeP(p)), p.ref, par)

\* the identity the next allocated node gets
NewNodeId(m) == Len(m.nodes) + 1

\* &node{leaf: leaf, keys: make([][]byte, order-1), keyNums: 0,
\*       pointers: make([]*pointer, order), parent: nil}
AllocNode(m, isLeaf) ==
    IF Failed(m) THEN m
    ELSE [m EXCEPT !.nodes = Append(@,
            [leaf     |-> isLeaf,
             parent   |-> NilNode,
             keys     |-> [i \in 0..(m.bpt.order - 2) |-> <<>>],
             keyNums  |-> 0,
             pointers |-> [i \in 0..(m.bpt.order - 1) |-> NilP]])]

\* the identity the next allocated *pointer{value} gets
NewPtrId(m) == Len(m.pdata) + 1

\* &pointer{data: v}, v a value
AllocPtr(m, v) == IF Failed(m) THEN m ELSE [m EXCEPT !.pdata = Append(@, v)]

----------------------------------------------------------------------------
(* node *)

\* for i := from; i > to; i-- { n.keys[i] = n.keys[i-1] }
RECURSIVE shiftKeysRight(_, _, _, _)
shiftKeysRight(m, n, i, to) ==
    IF Failed(m) \/ i <= to THEN m
    ELSE shiftKeysRight(CpKey(m, n, i, n, i - 1), n, i - 1, to)

\* for i := from; i > to; i-- { n.pointers[i] = n.pointers[i-1] }
RECURSIVE shiftPointersRight(_, _, _, _)
shiftPointersRight(m, n, i, to) ==
    IF Failed(m) \/ i <= to THEN m
    ELSE shiftPointersRight(CpPtr(m, n, i, n, i - 1), n, i - 1, to)

\* for j := from; j > to; j-- { n.keys[j] = n.keys[j-1]; n.pointers[j] = n.pointers[j-1] }
RECURSIVE shiftBothRight(_, _, _, _)
shiftBothRight(m, n, j, to) ==
    IF Failed(m) \/ j <= to THEN m
    ELSE shiftBothRight(CpPtr(CpKey(m, n, j, n, j - 1), n, j, n, j - 1), n, j - 1, to)

\* for i := from; i < to; i++ { n.keys[i-1] = n.keys[i]; n.pointers[i-1] = n.pointers[i] }
RECURSIVE shiftBothLeft(_, _, _, _)
shiftBothLeft(m, n, i, to) ==
    IF Failed(m) \/ i >= to THEN m
    ELSE shiftBothLeft(CpPtr(CpKey(m, n, i - 1, n, i), n, i - 1, n, i), n, i + 1, to)

\* for i := from; i < to; i++ { n.keys[i] = n.keys[i+1] }
RECURSIVE shiftKeysLeft(_, _, _, _)
shiftKeysLeft(m, n, i, to) ==
    IF Failed(m) \/ i >= to THEN m
    ELSE shiftKeysLeft(CpKey(m, n, i, n, i + 1), n, i + 1, to)

\* for i := from; i < to; i++ { n.pointers[i] = n.pointers[i+1] }
RECURSIVE shiftPointersLeft(_, _, _, _)
shiftPointersLeft(m, n, i, to) ==
    IF Failed(m) \/ i >= to THEN m
    ELSE shiftPointersLeft(CpPtr(m, n, i, n, i + 1), n, i + 1, to)

\* insertAt from `pointerNums := n.keyNums` to the end of the pointer loop
insertAtPointers(m, n, pointerPosition, p) ==
    IF RdLeaf(m, n)
    THEN shiftPointersRight(m, n, RdKeyNums(m, n), pointerPosition)
    ELSE shiftPointersRight(SetParentOf(m, p, n), n, RdKeyNums(m, n) + 1, pointerPosition)

\* n.insertAt(keyPosition, pointerPosition, key, p)
insertAt(m, n, keyPosition, pointerPosition, key, p) ==
    LET m1 == shiftKeysRight(Chk(m, IsNode(m, n)), n, RdKeyNums(m, n), keyPosition)
        m2 == AddKeyNums(insertAtPointers(m1, n, pointerPosition, p), n, 1)
    IN  WrPtr(WrKey(m2, n, keyPosition, key), n, pointerPosition, p)

\* n.setLastPointer(p) returns an error
setLastPointerErr(m, n) == ~RdLeaf(m, n)

\* n.setLastPointer(p), on a leaf
setLastPointer(m, n, p) ==
    IF setLastPointerErr(m, n) THEN m
    ELSE WrPtr(m, n, LenPointers(m, n) - 1, p)

\* n.pointerToNextLeafNode(): the last slot of the pointer array
pointerToNextLeafNode(m, n) == RdPtr(m, n, LenPointers(m, n) - 1)

----------------------------------------------------------------------------
(* BPlusTree: init, Get, Put *)

\* bpt.init(key, value) with bpt.mostLeftNode = bpt.root left out
initKeepsMostLeft(m, key, value) ==
    LET order    == m.bpt.order
        made     == [i \in 0..(order - 2) |-> <<>>]
        keys     == [made EXCEPT ![0] = GoCopy(made[0], key)]
        pointers == [i \in 0..(order - 2) |-> IF i = 0 THEN ValP(NewPtrId(m)) ELSE NilP]
        root     == NewNodeId(m)
    IN  [m EXCEPT !.pdata = Append(@, value),
                  !.nodes = Append(@, [leaf     |-> TRUE,
                                       parent   |-> NilNode,
                                       keys     |-> keys,
                                       keyNums  |-> 1,
                                       pointers |-> pointers]),
                  !.bpt.root = root,
                  !.bpt.size = @ + 1]

\* bpt.init(key, value)
init(m, key, value) ==
    LET order    == m.bpt.order
        made     == [i \in 0..(order - 2) |-> <<>>]
        keys     == [made EXCEPT ![0] = GoCopy(made[0], key)]
        pointers == [i \in 0..(order - 2) |-> IF i = 0 THEN ValP(NewPtrId(m)) ELSE NilP]
        root     == NewNodeId(m)
    IN  [m EXCEPT !.pdata = Append(@, value),
                  !.nodes = Append(@, [leaf     |-> TRUE,
                                       parent   |-> NilNode,
                                       keys     |-> keys,
                                       keyNums  |-> 1,
                                       pointers |-> pointers]),
                  !.bpt.root = root,
                  !.bpt.mostLeftNode = root,
                  !.bpt.size = @ + 1]

\* the scan `for position < n.keyNums { if bytes.Compare(key, n.keys[position]) < 0
\* { break }; position++ }`; -1 when n.keys[position] is out of range
RECURSIVE findPosition(_, _, _, _)
findPosition(m, n, key, position) ==
    IF position < RdKeyNums(m, n)
    THEN IF ~KeyIdx(m, n, position) THEN -1
         ELSE IF Compare(key, RdKey(m, n, position)) < 0 THEN position
         ELSE findPosition(m, n, key, position + 1)
    ELSE position

\* the outer loop of findLeafByKey; a descent longer than the number of nodes
\* has entered a cycle and never ends
RECURSIVE descend(_, _, _, _)
descend(m, current, key, fuel) ==
    IF ~IsNode(m, current) THEN [err |-> "panic", n |-> NilNode]
    ELSE IF RdLeaf(m, current) THEN [err |-> "", n |-> current]
    ELSE IF fuel = 0 THEN [err |-> "hang", n |-> NilNode]
    ELSE LET position == findPosition(m, current, key, 0)
             p == RdPtr(m, current, position)
         IN  IF position < 0 \/ ~PtrIdx(m, current, position) \/ ~IsNodeP(p)
             THEN [err |-> "panic", n |-> NilNode]
             ELSE descend(m, p.ref, key, fuel - 1)

\* bpt.findLeafByKey(key): [err, n]
findLeafByKey(m, key) == descend(m, m.bpt.root, key, Len(m.nodes))

\* the loop of Get over the keys of the leaf
RECURSIVE getInLeaf(_, _, _, _)
getInLeaf(m, targetLeaf, key, i) ==
    IF i >= RdKeyNums(m, targetLeaf) THEN Ret(m, NilVal, FALSE)
    ELSE IF ~KeyIdx(m, targetLeaf, i) THEN Panic(m)
    ELSE IF Compare(key, RdKey(m, targetLeaf, i)) = 0
         THEN LET p == RdPtr(m, targetLeaf, i)
              IN  IF ~PtrIdx(m, targetLeaf, i) \/ ~IsValP(p) THEN Panic(m)
                  ELSE Ret(m, m.pdata[p.ref], TRUE)
    ELSE getInLeaf(m, targetLeaf, key, i + 1)

\* bpt.Get(key)
Get(m, key) ==
    IF m.bpt.root = NilNode THEN Ret(m, NilVal, FALSE)
    ELSE LET f == findLeafByKey(m, key)
         IN  IF f.err # "" THEN [m EXCEPT !.err = f.err]
             ELSE getInLeaf(m, f.n, key, 0)

\* p.overrideValue(value), p == n.pointers[i]
overrideValue(m, n, i, value) ==
    LET p == RdPtr(m, n, i)
    IN  IF ~PtrIdx(m, n, i) \/ ~IsValP(p) THEN Panic(m)
        ELSE Ret([m EXCEPT !.pdata[p.ref] = value], m.pdata[p.ref], TRUE)

\* the scan of putIntoLeaf: [pos, hit, bad]; hit on an exact match, bad when
\* n.keys[pos] is out of range
RECURSIVE leafPosition(_, _, _, _)
leafPosition(m, n, k, insertPos) ==
    IF insertPos < RdKeyNums(m, n)
    THEN IF ~KeyIdx(m, n, insertPos)
         THEN [pos |-> insertPos, hit |-> FALSE, bad |-> TRUE]
         ELSE LET cmp == Compare(k, RdKey(m, n, insertPos))
              IN  IF cmp = 0 THEN [pos |-> insertPos, hit |-> TRUE, bad |-> FALSE]
                  ELSE IF cmp < 0 THEN [pos |-> insertPos, hit |-> FALSE, bad |-> FALSE]
                  ELSE leafPosition(m, n, k, insertPos + 1)
    ELSE [pos |-> insertPos, hit |-> FALSE, bad |-> FALSE]

\* for i := len(n.keys) - 1; i >= copyFrom; i-- { n.keys[i] = nil; n.pointers[i+d] = nil }
RECURSIVE cleanUp(_, _, _, _, _)
cleanUp(m, n, i, copyFrom, d) ==
    IF Failed(m) \/ i < copyFrom THEN m
    ELSE cleanUp(WrPtr(WrKey(m, n, i, <<>>), n, i + d, NilP), n, i - 1, copyFrom, d)

\* copy(dst.keys, src.keys[from:])
copyKeys(m, dst, src, from) ==
    IF Failed(m) THEN m
    ELSE IF from > LenKeys(m, src) THEN Panic(m)
    ELSE [m EXCEPT !.nodes[dst].keys =
              CopyTo(@, Slice(m.nodes[src].keys, from, LenKeys(m, src)))]

\* copy(dst.pointers, src.pointers[from:to])
copyPointers(m, dst, src, from, to) ==
    IF Failed(m) THEN m
    ELSE IF from > to THEN Panic(m)
    ELSE [m EXCEPT !.nodes[dst].pointers =
              CopyTo(@, Slice(m.nodes[src].pointers, from, to))]

\* if err := n.setLastPointer(p); err != nil { panic(err) }
mustSetLastPointer(m, n, p) ==
    setLastPointer(Chk(m, ~setLastPointerErr(m, n)), n, p)

\* right.keyNums = len(right.keys) - copyFrom
setRightKeyNums(m, right, copyFrom) == WrKeyNums(m, right, LenKeys(m, right) - copyFrom)

\* putIntoLeafAndSplit up to the choice of the node to insert into: the new
\* right leaf takes the entries from copyFrom on and the link of n, n keeps
\* the others and is linked to right
splitLeaf(m, n, right, copyFrom) ==
    LET m1 == copyKeys(AllocNode(Chk(m, IsNode(m, n)), TRUE), right, n, copyFrom)
        m2 == copyPointers(m1, right, n, copyFrom, LenPointers(m, n) - 1)
        m3 == mustSetLastPointer(m2, right, pointerToNextLeafNode(m, n))
        m4 == WrParent(setRightKeyNums(m3, right, copyFrom), n, NilNode)
        m5 == cleanUp(WrKeyNums(m4, n, copyFrom), n, LenKeys(m, n) - 1, copyFrom, 0)
    IN  mustSetLastPointer(m5, n, NodeP(right))

\* insertNode.insertAt(insertPos, insertPos, k, &pointer{v})
insertValueAt(m, insertNode, insertPos, k, v) ==
    insertAt(AllocPtr(m, v), insertNode, insertPos, insertPos, k, ValP(NewPtrId(m)))

\* bpt.putIntoLeafAndSplit(n, insertPos, k, v): left is n, right the new node
putIntoLeafAndSplit(m, n, insertPos, k, v) ==
    LET right     == NewNodeId(m)
        middlePos == ceil(LenKeys(m, n), 2)
        copyFrom  == IF insertPos < middlePos THEN middlePos - 1 ELSE middlePos
    IN  IF insertPos >= middlePos
        THEN insertValueAt(splitLeaf(m, n, right, copyFrom), right,
                           insertPos - middlePos, k, v)
        ELSE insertValueAt(splitLeaf(m, n, right, copyFrom), n, insertPos, k, v)

\* the insertion of putIntoParent and putIntoParentAndSplit: key k at
\* insertPos of insertNode, with l and r as the children around it
insertChildren(m, insertNode, insertPos, k, l, r) ==
    LET m1 == CpPtr(m, insertNode, RdKeyNums(m, insertNode) + 1,
                    insertNode, RdKeyNums(m, insertNode))
        m2 == shiftBothRight(m1, insertNode, RdKeyNums(m, insertNode), insertPos)
        m3 == WrPtr(WrKey(m2, insertNode, insertPos, k), insertNode, insertPos, NodeP(l))
        m4 == AddKeyNums(WrPtr(m3, insertNode, insertPos + 1, NodeP(r)), insertNode, 1)
    IN  WrParent(WrParent(m4, l, insertNode), r, insertNode)

\* bpt.putIntoParent(parent, k, l, r)
putIntoParent(m, parent, k, l, r) ==
    LET insertPos == findPosition(m, parent, k, 0)
    IN  insertChildren(Chk(m, insertPos >= 0), parent, insertPos, k, l, r)

\* bpt.root = newRoot
setRoot(m, newRoot) == IF Failed(m) THEN m ELSE [m EXCEPT !.bpt.root = newRoot]

\* bpt.putIntoNewRoot(key, l, r)
putIntoNewRoot(m, key, l, r) ==
    LET newRoot == NewNodeId(m)
        m1 == WrKey(WrKeyNums(AllocNode(m, FALSE), newRoot, 1), newRoot, 0, key)
        m2 == WrPtr(WrPtr(m1, newRoot, 0, NodeP(l)), newRoot, 1, NodeP(r))
    IN  setRoot(WrParent(WrParent(m2, l, newRoot), r, newRoot), newRoot)

\* for _, p := range n.pointers { if p != nil { p.convertToNode().parent = n } }
RECURSIVE updateParents(_, _, _)
updateParents(m, n, i) ==
    IF Failed(m) \/ i >= LenPointers(m, n) THEN m
    ELSE LET p == RdPtr(m, n, i)
         IN  updateParents(IF p = NilP THEN m ELSE SetParentOf(m, p, n), n, i + 1)

\* putIntoParentAndSplit up to the choice of the node to insert into: the
\* new right node takes the keys and children from copyFrom on
splitParent(m, parent, right, copyFrom) ==
    LET m1 == copyKeys(AllocNode(m, FALSE), right, parent, copyFrom)
        m2 == copyPointers(m1, right, parent, copyFrom, LenPointers(m, parent))
        m3 == WrKeyNums(setRightKeyNums(m2, right, copyFrom), parent, copyFrom)
    IN  cleanUp(m3, parent, LenKeys(m, parent) - 1, copyFrom, 1)

\* "clean up the right node": its first key, the middle key, is taken out
dropFirstKey(m, right) ==
    LET m1 == shiftBothLeft(m, right, 1, RdKeyNums(m, right))
        m2 == CpPtr(m1, right, RdKeyNums(m, right) - 1, right, RdKeyNums(m, right))
        m3 == WrPtr(m2, right, RdKeyNums(m, right), NilP)
    IN  AddKeyNums(WrKey(m3, right, RdKeyNums(m, right) - 1, <<>>), right, -1)

\* return middleKey, left, right: the key is handed over in rk
returnKey(m, middleKey) == IF Failed(m) THEN m ELSE [m EXCEPT !.rk = middleKey]

\* putIntoParentAndSplit from `middleKey := right.keys[0]` on
takeMiddleKey(m, left, right) ==
    returnKey(updateParents(updateParents(dropFirstKey(m, right), left, 0), right, 0),
              RdKey(m, right, 0))

\* bpt.putIntoParentAndSplit(parent, k, l, r): left is parent, right the new
\* node, the middle key is returned in rk
putIntoParentAndSplit(m, parent, k, l, r) ==
    LET ip        == findPosition(m, parent, k, 0)
        right     == NewNodeId(m)
        middlePos == ceil(LenKeys(m, parent), 2)
        copyFrom  == IF ip < middlePos THEN middlePos - 1 ELSE middlePos
        m1        == splitParent(Chk(m, ip >= 0), parent, right, copyFrom)
    IN  IF ip >= middlePos
        THEN takeMiddleKey(insertChildren(m1, right, ip - middlePos, k, l, r),
                           parent, right)
        ELSE takeMiddleKey(insertChildren(m1, parent, ip, k, l, r), parent, right)

\* parent = parent.parent left out: the loop goes on with the same node
sameParent(m, parent) == parent

\* parent = parent.parent, the last statement of the loop of putIntoLeaf
nextParent(m, parent) == RdParent(m, parent)

RECURSIVE propagate(_, _, _, _, _)

\* the round of the loop after putIntoParentAndSplit has returned (its key
\* in rk, its left node parent, its right node right)
afterParentSplit(m, parent, right) ==
    propagate(m, nextParent(m, parent), m.rk, parent, right)

\* the loop of putIntoLeaf that carries a split up the tree
propagate(m, parent, insertKey, left, right) ==
    IF Failed(m) \/ left = NilNode \/ right = NilNode THEN m
    ELSE IF parent = NilNode THEN putIntoNewRoot(m, insertKey, left, right)
    ELSE IF RdKeyNums(m, parent) < LenKeys(m, parent)
         THEN putIntoParent(m, parent, insertKey, left, right)
    ELSE afterParentSplit(putIntoParentAndSplit(m, parent, insertKey, left, right),
                          parent, NewNodeId(m))

\* the branch of putIntoLeaf for a leaf that is not full
insertIntoLeaf(m, n, insertPos, k, v) ==
    LET m1 == WrKey(shiftBothRight(m, n, RdKeyNums(m, n), insertPos), n, insertPos, k)
        m2 == WrPtr(AllocPtr(m1, v), n, insertPos, ValP(NewPtrId(m)))
    IN  WrKeyNums(m2, n, RdKeyNums(m, n) + 1)

\* insertKey := right.keys[0], and the loop
carryUp(m, parent, left, right) == propagate(m, parent, RdKey(m, right, 0), left, right)

\* bpt.size++; return nil, false
countPut(m) ==
    IF Failed(m) THEN m ELSE Ret([m EXCEPT !.bpt.size = @ + 1], NilVal, FALSE)

\* bpt.putIntoLeaf(n, k, v)
putIntoLeaf(m, n, k, v) ==
    LET f == leafPosition(m, n, k, 0)
    IN  IF f.bad THEN Panic(m)
        ELSE IF f.hit THEN overrideValue(m, n, f.pos, v)
        ELSE IF RdKeyNums(m, n) < LenKeys(m, n)
        THEN countPut(insertIntoLeaf(m, n, f.pos, k, v))
        ELSE countPut(carryUp(putIntoLeafAndSplit(m, n, f.pos, k, v),
                              RdParent(m, n), n, NewNodeId(m)))

\* bpt.Put(key, value)
Put(m, key, value) ==
    IF m.bpt.root = NilNode THEN Ret(init(m, key, value), NilVal, FALSE)
    ELSE LET f == findLeafByKey(m, key)
         IN  IF f.err # "" THEN [m EXCEPT !.err = f.err]
             ELSE putIntoLeaf(m, f.n, key, value)

----------------------------------------------------------------------------
(* node: deleteAt, append, copyFromRight and the position lookups *)

\* deleteAt up to `n.keys[n.keyNums-1] = nil`
deleteAtKeys(m, n, keyPosition) ==
    WrKey(shiftKeysLeft(m, n, keyPosition, RdKeyNums(m, n) - 1),
          n, RdKeyNums(m, n) - 1, <<>>)

\* deleteAt from `pointerNums := n.keyNums` to `n.pointers[pointerNums-1] = nil`;
\* the loop stops at n.keyNums-1, also on an internal node
deleteAtPointers(m, n, pointerPosition) ==
    LET pointerNums == IF RdLeaf(m, n) THEN RdKeyNums(m, n) ELSE RdKeyNums(m, n) + 1
    IN  WrPtr(shiftPointersLeft(m, n, pointerPosition, RdKeyNums(m, n) - 1),
              n, pointerNums - 1, NilP)

\* n.deleteAt(keyPosition, pointerPosition)
deleteAt(m, n, keyPosition, pointerPosition) ==
    LET m1 == deleteAtKeys(Chk(m, IsNode(m, n)), n, keyPosition)
    IN  AddKeyNums(deleteAtPointers(m1, n, pointerPosition), n, -1)

\* n.keyPosition(key): the position, -1 when absent, -2 on an index out of range
RECURSIVE keyPositionFrom(_, _, _, _)
keyPositionFrom(m, n, key, keyPosition) ==
    IF keyPosition >= RdKeyNums(m, n) THEN -1
    ELSE IF ~KeyIdx(m, n, keyPosition) THEN -2
    ELSE IF Compare(key, RdKey(m, n, keyPosition)) = 0 THEN keyPosition
    ELSE keyPositionFrom(m, n, key, keyPosition + 1)

keyPosition(m, n, key) ==
    IF ~IsNode(m, n) THEN -2 ELSE keyPositionFrom(m, n, key, 0)

\* n.getPointerPositionOfNode(target): the position, -1 when not found, -2
\* when a slot does not hold a node
RECURSIVE pointerPositionFrom(_, _, _, _)
pointerPositionFrom(m, n, target, position) ==
    IF position >= LenPointers(m, n) THEN -1
    ELSE LET pointer == RdPtr(m, n, position)
         IN  IF pointer = NilP THEN -1
             ELSE IF ~IsNodeP(pointer) THEN -2
             ELSE IF pointer.ref = target THEN position
             ELSE pointerPositionFrom(m, n, target, position + 1)

getPointerPositionOfNode(m, n, target) ==
    IF ~IsNode(m, n) THEN -2 ELSE pointerPositionFrom(m, n, target, 0)

\* the pointerPosition of append
appendPosition(m, n) ==
    IF ~RdLeaf(m, n) /\ RdPtr(m, n, RdKeyNums(m, n)) # NilP
    THEN RdKeyNums(m, n) + 1
    ELSE RdKeyNums(m, n)

\* n.append(key, p)
append(m, n, key, p) ==
    LET m1 == Chk(Chk(m, IsNode(m, n)), RdLeaf(m, n) \/ PtrIdx(m, n, RdKeyNums(m, n)))
        m2 == WrPtr(WrKey(m1, n, RdKeyNums(m, n), key), n, appendPosition(m, n), p)
        m3 == WrKeyNums(m2, n, RdKeyNums(m, n) + 1)
    IN  IF RdLeaf(m, n) THEN m3 ELSE SetParentOf(m3, p, n)

\* the loop of copyFromRight
RECURSIVE copyEntries(_, _, _, _)
copyEntries(m, n, from, i) ==
    IF Failed(m) \/ i >= RdKeyNums(m, from) THEN m
    ELSE copyEntries(append(Chk(Chk(m, KeyIdx(m, from, i)), PtrIdx(m, from, i)),
                            n, RdKey(m, from, i), RdPtr(m, from, i)),
                     n, from, i + 1)

\* n.pointers[n.keyNums].convertToNode().parent = n
adoptLastChild(m, n) == SetParentOf(m, RdPtr(m, n, RdKeyNums(m, n)), n)

\* copyFromRight after its loop
copyLastPointer(m, n, from) ==
    IF RdLeaf(m, n)
    THEN setLastPointer(m, n, pointerToNextLeafNode(m, from))
    ELSE adoptLastChild(CpPtr(m, n, RdKeyNums(m, n), from, RdKeyNums(m, from)), n)

\* n.copyFromRight(from)
copyFromRight(m, n, from) ==
    copyLastPointer(copyEntries(Chk(Chk(m, IsNode(m, n)), IsNode(m, from)), n, from, 0),
                    n, from)

----------------------------------------------------------------------------
(* BPlusTree: Delete and rebalancing *)

\* findLeftmostKey(n): [err, key]
RECURSIVE leftmostKey(_, _, _)
leftmostKey(m, current, fuel) ==
    IF ~IsNode(m, current) THEN [err |-> "panic", key |-> <<>>]
    ELSE IF RdLeaf(m, current) THEN [err |-> "", key |-> RdKey(m, current, 0)]
    ELSE IF fuel = 0 THEN [err |-> "hang", key |-> <<>>]
    ELSE LET p == RdPtr(m, current, 0)
         IN  IF ~IsNodeP(p) THEN [err |-> "panic", key |-> <<>>]
             ELSE leftmostKey(m, p.ref, fuel - 1)

findLeftmostKey(m, n) == leftmostKey(m, n, Len(m.nodes))

\* the inner loop of removeFromIndex on node current: the machine, with the
\* position reached in rk (as a one-element sequence)
RECURSIVE indexScan(_, _, _, _)
indexScan(m, current, key, position) ==
    IF Failed(m) THEN m
    ELSE IF position >= RdKeyNums(m, current) THEN [m EXCEPT !.rk = <<position>>]
    ELSE IF ~KeyIdx(m, current, position) THEN Panic(m)
    ELSE LET cmp == Compare(key, RdKey(m, current, position))
         IN  IF cmp < 0 THEN [m EXCEPT !.rk = <<position>>]
             ELSE IF cmp > 0 THEN indexScan(m, current, key, position + 1)
             ELSE LET p == RdPtr(m, current, position + 1)
                      f == findLeftmostKey(m, p.ref)
                  IN  IF ~PtrIdx(m, current, position + 1) \/ ~IsNodeP(p) THEN Panic(m)
                      ELSE IF f.err # "" THEN [m EXCEPT !.err = f.err]
                      \* the key written is the key searched for: the next
                      \* round finds cmp == 0 again, for ever
                      ELSE IF Compare(key, f.key) = 0 THEN Hang(m)
                      ELSE indexScan(WrKey(m, current, position, f.key),
                                     current, key, position)

RECURSIVE indexDescend(_, _, _, _)

\* removeFromIndex after the inner loop: current = current.pointers[position]
indexStep(m, current, key, fuel) ==
    LET p == RdPtr(m, current, m.rk[1])
    IN  IF Failed(m) THEN m
        ELSE IF ~PtrIdx(m, current, m.rk[1]) \/ ~IsNodeP(p) THEN Panic(m)
        ELSE indexDescend(m, p.ref, key, fuel - 1)

\* the outer loop of removeFromIndex
indexDescend(m, current, key, fuel) ==
    IF Failed(m) THEN m
    ELSE IF ~IsNode(m, current) THEN Panic(m)
    ELSE IF RdLeaf(m, current) THEN m
    ELSE IF fuel = 0 THEN Hang(m)
    ELSE indexStep(indexScan(m, current, key, 0), current, key, fuel)

\* bpt.removeFromIndex(key)
removeFromIndex(m, key) == indexDescend(m, m.bpt.root, key, Len(m.nodes))

\* what rebalancedFromLeafNode and rebalanceParentNode look up first: the
\* position of n in its parent and the siblings on both sides of it
siblingsAt(m, parent, pointerPositionInParent) ==
    LET leftSiblingPosition  == pointerPositionInParent - 1
        rightSiblingPosition == pointerPositionInParent + 1
        hasLeft  == leftSiblingPosition >= 0
        hasRight == rightSiblingPosition < RdKeyNums(m, parent) + 1
        lp == RdPtr(m, parent, leftSiblingPosition)
        rp == RdPtr(m, parent, rightSiblingPosition)
    IN  [parent                  |-> parent,
         pointerPositionInParent |-> pointerPositionInParent,
         keyPositionInParent     |-> IF pointerPositionInParent - 1 < 0 THEN 0
                                     ELSE pointerPositionInParent - 1,
         rightSiblingPosition    |-> rightSiblingPosition,
         hasLeft                 |-> hasLeft,
         badLeft                 |-> ~PtrIdx(m, parent, leftSiblingPosition) \/ ~IsNodeP(lp),
         leftSibling             |-> IF hasLeft THEN lp.ref ELSE NilNode,
         hasRight                |-> hasRight,
         badRight                |-> ~PtrIdx(m, parent, rightSiblingPosition) \/ ~IsNodeP(rp),
         rightSibling            |-> IF hasRight THEN rp.ref ELSE NilNode]

siblings(m, n) ==
    siblingsAt(m, RdParent(m, n), getPointerPositionOfNode(m, RdParent(m, n), n))

\* n.deleteAt(n.keyNums-1, n.keyNums-1+d)
deleteLast(m, n, d) == deleteAt(m, n, RdKeyNums(m, n) - 1, RdKeyNums(m, n) - 1 + d)

\* parent.keys[position] = sibling.keys[sibling.keyNums-1]
copyLastKeyUp(m, parent, position, sibling) ==
    CpKey(m, parent, position, sibling, RdKeyNums(m, sibling) - 1)

\* n.keys[n.keyNums] = parent.keys[position]; n.keyNums++
pullKeyDown(m, n, parent, position) ==
    AddKeyNums(CpKey(m, n, RdKeyNums(m, n), parent, position), n, 1)

\* rebalanceParentNode, borrowing from the left sibling
parentBorrowsLeft(m, n, parent, leftSibling, keyPositionInParent) ==
    LET moved == RdPtr(m, leftSibling, RdKeyNums(m, leftSibling))
        m1 == Chk(Chk(m, KeyIdx(m, parent, keyPositionInParent)),
                  PtrIdx(m, leftSibling, RdKeyNums(m, leftSibling)))
        m2 == insertAt(SetParentOf(m1, moved, n), n, 0, 0,
                       RdKey(m, parent, keyPositionInParent), moved)
    IN  deleteLast(copyLastKeyUp(m2, parent, keyPositionInParent, leftSibling),
                   leftSibling, 1)

\* rebalanceParentNode, borrowing from the right sibling
parentBorrowsRight(m, n, parent, rightSibling, splitKeyPosition) ==
    LET m1 == Chk(Chk(m, KeyIdx(m, parent, splitKeyPosition)), PtrIdx(m, rightSibling, 0))
        m2 == append(m1, n, RdKey(m, parent, splitKeyPosition), RdPtr(m, rightSibling, 0))
    IN  deleteAt(CpKey(m2, parent, splitKeyPosition, rightSibling, 0), rightSibling, 0, 0)

\* rebalanceParentNode, merging right into left under the key of parent
\* between them; the child at pointerPosition is taken out of parent
parentMerges(m, left, right, parent, keyPositionInParent, pointerPosition) ==
    deleteAt(copyFromRight(pullKeyDown(m, left, parent, keyPositionInParent), left, right),
             parent, keyPositionInParent, pointerPosition)

\* the root has lost its last key: its only child becomes the root
promoteChild(m, n) ==
    LET p == RdPtr(m, n, 0)
    IN  IF ~IsNodeP(p) THEN Panic(m)
        ELSE WrParent([m EXCEPT !.bpt.root = p.ref], p.ref, NilNode)

RECURSIVE rebalanceParentNode(_, _)

\* rebalanceParentNode for a node n short of keys, with its siblings s
rebalanceParentWith(m, n, s) ==
    IF s.pointerPositionInParent = -2 THEN Panic(m)
    ELSE IF s.hasLeft /\ s.badLeft THEN Panic(m)
    ELSE IF s.hasLeft /\ RdKeyNums(m, s.leftSibling) > m.bpt.minKeyNum
    THEN parentBorrowsLeft(m, n, s.parent, s.leftSibling, s.keyPositionInParent)
    ELSE IF s.hasRight /\ s.badRight THEN Panic(m)
    ELSE IF s.hasRight /\ RdKeyNums(m, s.rightSibling) > m.bpt.minKeyNum
    THEN parentBorrowsRight(m, n, s.parent, s.rightSibling, s.rightSiblingPosition - 1)
    ELSE IF s.leftSibling # NilNode
    THEN rebalanceParentNode(
             parentMerges(m, s.leftSibling, n, s.parent, s.keyPositionInParent,
                          s.pointerPositionInParent),
             s.parent)
    ELSE IF s.rightSibling # NilNode
    THEN rebalanceParentNode(
             parentMerges(m, n, s.rightSibling, s.parent, s.keyPositionInParent,
                          s.rightSiblingPosition),
             s.parent)
    ELSE rebalanceParentNode(m, s.parent)

\* bpt.rebalanceParentNode(n)
rebalanceParentNode(m, n) ==
    IF Failed(m) THEN m
    ELSE IF ~IsNode(m, n) THEN Panic(m)
    ELSE IF RdParent(m, n) = NilNode
    THEN IF RdKeyNums(m, n) = 0 THEN promoteChild(m, n) ELSE m
    ELSE IF RdKeyNums(m, n) >= m.bpt.minKeyNum THEN m
    ELSE rebalanceParentWith(m, n, siblings(m, n))

\* rebalancedFromLeafNode, borrowing from the left sibling
leafBorrowsLeft(m, n, parent, leftSibling, keyPositionInParent) ==
    LET last == RdKeyNums(m, leftSibling) - 1
        m1 == Chk(Chk(m, KeyIdx(m, leftSibling, last)), PtrIdx(m, leftSibling, last))
        m2 == insertAt(m1, n, 0, 0, RdKey(m, leftSibling, last), RdPtr(m, leftSibling, last))
    IN  CpKey(deleteLast(m2, leftSibling, 0), parent, keyPositionInParent, n, 0)

\* rebalancedFromLeafNode, borrowing from the right sibling
leafBorrowsRight(m, n, parent, rightSibling, splitKeyPosition) ==
    LET m1 == Chk(Chk(m, KeyIdx(m, rightSibling, 0)), PtrIdx(m, rightSibling, 0))
        m2 == append(m1, n, RdKey(m, rightSibling, 0), RdPtr(m, rightSibling, 0))
    IN  CpKey(deleteAt(m2, rightSibling, 0, 0), parent, splitKeyPosition, rightSibling, 0)

\* rebalancedFromLeafNode, merging right into left; the child at
\* pointerPosition is taken out of parent
leafMerges(m, left, right, parent, keyPositionInParent, pointerPosition) ==
    deleteAt(copyFromRight(m, left, right), parent, keyPositionInParent, pointerPosition)

\* rebalancedFromLeafNode for a leaf n with its siblings s
rebalanceLeafWith(m, n, s) ==
    IF Failed(m) THEN m
    ELSE IF s.pointerPositionInParent = -2 THEN Panic(m)
    ELSE IF s.hasLeft /\ s.badLeft THEN Panic(m)
    ELSE IF s.hasLeft /\ RdKeyNums(m, s.leftSibling) > m.bpt.minKeyNum
    THEN leafBorrowsLeft(m, n, s.parent, s.leftSibling, s.keyPositionInParent)
    ELSE IF s.hasRight /\ s.badRight THEN Panic(m)
    ELSE IF s.hasRight /\ RdKeyNums(m, s.rightSibling) > m.bpt.minKeyNum
    THEN leafBorrowsRight(m, n, s.parent, s.rightSibling, s.rightSiblingPosition - 1)
    ELSE IF s.leftSibling # NilNode
    THEN rebalanceParentNode(
             leafMerges(m, s.leftSibling, n, s.parent, s.keyPositionInParent,
                        s.pointerPositionInParent),
             s.parent)
    ELSE IF s.rightSibling # NilNode
    THEN rebalanceParentNode(
             leafMerges(m, n, s.rightSibling, s.parent, s.keyPositionInParent,
                        s.rightSiblingPosition),
             s.parent)
    ELSE rebalanceParentNode(m, s.parent)

\* bpt.rebalancedFromLeafNode(n)
rebalancedFromLeafNode(m, n) == rebalanceLeafWith(m, n, siblings(m, n))

\* deleteAtLeafAndRebalance after n.deleteAt(keyPos, keyPos)
afterDeleteAtLeaf(m, n, key, value) ==
    IF Failed(m) THEN m
    ELSE IF RdParent(m, n) = NilNode
    THEN Ret(IF RdKeyNums(m, n) = 0 THEN [m EXCEPT !.bpt.root = NilNode] ELSE m,
             value, TRUE)
    ELSE IF RdKeyNums(m, n) < m.bpt.minKeyNum
    THEN Ret(removeFromIndex(rebalancedFromLeafNode(m, n), key), value, TRUE)
    ELSE Ret(removeFromIndex(m, key), value, TRUE)

\* bpt.deleteAtLeafAndRebalance(n, key)
deleteAtLeafAndRebalance(m, n, key) ==
    LET keyPos == keyPosition(m, n, key)
        p      == RdPtr(m, n, keyPos)
    IN  IF keyPos = -2 THEN Panic(m)
        ELSE IF keyPos = -1 THEN Ret(m, NilVal, FALSE)
        ELSE IF ~PtrIdx(m, n, keyPos) \/ ~IsValP(p) THEN Panic(m)
        ELSE afterDeleteAtLeaf(deleteAt(m, n, keyPos, keyPos), n, key, m.pdata[p.ref])

\* Delete after deleteAtLeafAndRebalance: if removed { bpt.size-- }
countDelete(m) ==
    IF Failed(m) \/ ~m.rok THEN Ret(m, NilVal, FALSE)
    ELSE Ret([m EXCEPT !.bpt.size = @ - 1], m.rv, TRUE)

\* bpt.Delete(key)
Delete(m, key) ==
    IF m.bpt.root = NilNode THEN Ret(m, NilVal, FALSE)
    ELSE LET f == findLeafByKey(m, key)
         IN  IF f.err # "" THEN [m EXCEPT !.err = f.err]
             ELSE countDelete(deleteAtLeafAndRebalance(m, f.n, key))

----------------------------------------------------------------------------
(* Iterator *)

\* bpt.Iterator()
Iterator(m) == [next |-> m.bpt.mostLeftNode, i |-> 0]

\* it.HasNext()
HasNext(m, it) == it.next # NilNode /\ it.i < RdKeyNums(m, it.next)

\* it.Next() panics: called without a next element, or on a slot of the
\* wrong kind
NextPanics(m, it) ==
    \/ ~HasNext(m, it)
    \/ ~KeyIdx(m, it.next, it.i)
    \/ ~PtrIdx(m, it.next, it.i)
    \/ ~IsValP(RdPtr(m, it.next, it.i))
    \/ /\ it.i + 1 = RdKeyNums(m, it.next)
       /\ pointerToNextLeafNode(m, it.next) # NilP
       /\ ~IsNodeP(pointerToNextLeafNode(m, it.next))

\* the pair it.Next() returns
NextPair(m, it) == <<RdKey(m, it.next, it.i), m.pdata[RdPtr(m, it.next, it.i).ref]>>

\* the iterator after it.Next()
NextIt(m, it) ==
    IF it.i + 1 = RdKeyNums(m, it.next)
    THEN LET lastPointer == pointerToNextLeafNode(m, it.next)
         IN  [next |-> IF lastPointer # NilP THEN lastPointer.ref ELSE NilNode, i |-> 0]
    ELSE [it EXCEPT !.i = @ + 1]

\* it.Next() that hands out zero values where there is no next element
NextReturnsZero(m, it) ==
    IF ~HasNext(m, it) THEN [err |-> "", pair |-> <<<<>>, NilVal>>, it |-> it]
    ELSE IF NextPanics(m, it)
    THEN [err |-> "panic", pair |-> <<>>,
          it |-> IF IsValP(RdPtr(m, it.next, it.i)) THEN [it EXCEPT !.i = @ + 1] ELSE it]
    ELSE [err |-> "", pair |-> NextPair(m, it), it |-> NextIt(m, it)]

\* it.Next(): [err, pair, it], the pair returned and the iterator after the
\* call; the panic of a next-leaf link that holds a value comes after it.i++
IteratorNext(m, it) ==
    IF ~HasNext(m, it) THEN [err |-> "panic", pair |-> <<>>, it |-> it]
    ELSE IF NextPanics(m, it)
    THEN [err |-> "panic", pair |-> <<>>,
          it |-> IF IsValP(RdPtr(m, it.next, it.i)) THEN [it EXCEPT !.i = @ + 1] ELSE it]
    ELSE [err |-> "", pair |-> NextPair(m, it), it |-> NextIt(m, it)]

\* the loop of ForEach: [err, seq], seq the pairs handed to the action; an
\* iterator that makes more steps than there are slots is in a cycle of
\* the leaf chain and never ends
RECURSIVE forEachFrom(_, _, _, _)
forEachFrom(m, it, seq, fuel) ==
    IF ~HasNext(m, it) THEN [err |-> "", seq |-> seq]
    ELSE IF NextPanics(m, it) THEN [err |-> "panic", seq |-> seq]
    ELSE IF fuel = 0 THEN [err |-> "hang", seq |-> seq]
    ELSE forEachFrom(m, NextIt(m, it), Append(seq, NextPair(m, it)), fuel - 1)

\* bpt.ForEach(action)
ForEach(m) == forEachFrom(m, Iterator(m), <<>>, Len(m.nodes) * m.bpt.order)

\* bpt.Size()
Size(m) == m.bpt.size

----------------------------------------------------------------------------
(* Construction *)

\* the zero value of the BPlusTree struct
ZeroTree == [root |-> NilNode, mostLeftNode |-> NilNode, order |-> 0,
             size |-> 0, minKeyNum |-> 0]

\* SetOrder with the bound off by one
SetOrderErrOffByOne(order) == order < 2

\* SetOrder(order) returns an error
SetOrderErr(order) == order < 3

\* the loop of NewBPlusTree over its options: [err, bpt]
RECURSIVE applyOptions(_, _, _)
applyOptions(b, options, i) ==
    IF i > Len(options) THEN [err |-> FALSE, bpt |-> b]
    ELSE IF SetOrderErr(options[i]) THEN [err |-> TRUE, bpt |-> ZeroTree]
    ELSE applyOptions([b EXCEPT !.order = options[i]], options, i + 1)

\* NewBPlusTree(options...): [err, bpt]
NewBPlusTree(options) ==
    LET r == applyOptions([ZeroTree EXCEPT !.order = defaultOrder], options, 1)
    IN  IF r.err THEN r
        ELSE [r EXCEPT !.bpt.minKeyNum = ceil(r.bpt.order, 2) - 1]

----------------------------------------------------------------------------
(* The heap between calls.  Go's nodes and *pointer objects have no          *)
(* observable address: a node unreachable from the tree is garbage, and two  *)
(* heaps that differ only in the identities of their objects are the same    *)
(* program state.  After each call the reachable objects are renumbered in   *)
(* the order a walk from bpt.root and bpt.mostLeftNode finds them.           *)

\* the nodes node n refers to: its pointer slots in order, then its parent
NodeRefs(m, n) ==
    LET nd == m.nodes[n]
        np == GoLen(nd.pointers)
    IN  [j \in 1..(np + 1) |->
            IF j <= np
            THEN IF IsNodeP(nd.pointers[j - 1]) THEN nd.pointers[j - 1].ref ELSE NilNode
            ELSE nd.parent]

SeqRange(q) == {q[j] : j \in DOMAIN q}

\* ord, followed by the elements of cand (from j on) that are neither nil nor in it
RECURSIVE AppendNew(_, _, _)
AppendNew(ord, cand, j) ==
    IF j > Len(cand) THEN ord
    ELSE AppendNew(IF cand[j] = NilNode \/ cand[j] \in SeqRange(ord)
                   THEN ord ELSE Append(ord, cand[j]),
                   cand, j + 1)

\* the reachable nodes in the order of the walk
RECURSIVE Walk(_, _, _)
Walk(m, ord, i) ==
    IF i > Len(ord) THEN ord
    ELSE Walk(m, AppendNew(ord, NodeRefs(m, ord[i]), 1), i + 1)

IndexIn(q, x) == CHOOSE j \in DOMAIN q : q[j] = x

\* the *pointer objects holding a value, in the order the slots of the
\* nodes (already renumbered) name them
RECURSIVE WalkPtrs(_, _, _)
WalkPtrs(ns, pord, n) ==
    IF n > Len(ns) THEN pord
    ELSE LET ps == ns[n].pointers
             cand == [j \in 1..GoLen(ps) |->
                         IF IsValP(ps[j - 1]) THEN ps[j - 1].ref ELSE 0]
         IN  WalkPtrs(ns, AppendNew(pord, cand, 1), n + 1)

Collect(m) ==
    LET ord  == Walk(m, AppendNew(<<>>, <<m.bpt.root, m.bpt.mostLeftNode>>, 1), 1)
        nn(n) == IF n = NilNode THEN NilNode ELSE IndexIn(ord, n)
        pord == WalkPtrs([j \in 1..Len(ord) |-> m.nodes[ord[j]]], <<>>, 1)
        np(p) == IF IsNodeP(p) THEN NodeP(nn(p.ref))
                 ELSE IF IsValP(p) THEN ValP(IndexIn(pord, p.ref))
                 ELSE p
    IN  [m EXCEPT
           !.nodes = [j \in 1..Len(ord) |->
                        LET nd == m.nodes[ord[j]]
                        IN  [nd EXCEPT !.parent = nn(nd.parent),
                                       !.pointers = [i \in DOMAIN nd.pointers |->
                                                        np(nd.pointers[i])]]],
           !.pdata = [j \in 1..Len(pord) |-> m.pdata[pord[j]]],
           !.bpt.root = nn(m.bpt.root),
           !.bpt.mostLeftNode = nn(m.bpt.mostLeftNode)]

----------------------------------------------------------------------------
(* The state machine: a caller that builds one tree and calls it *)

\* the depths at which leaves are found below node n, itself at depth d; -1
\* stands for a child slot that holds no node, -2 for a path longer than
\* the heap
RECURSIVE LeafDepths(_, _, _)
LeafDepths(n, d, fuel) ==
    IF nodes[n].leaf THEN {d}
    ELSE IF fuel = 0 THEN {-2}
    ELSE UNION {LET p == nodes[n].pointers[i]
                IN  IF IsNodeP(p) THEN LeafDepths(p.ref, d + 1, fuel - 1) ELSE {-1} :
                i \in (0..nodes[n].keyNums) \cap DOMAIN nodes[n].pointers}

\* the number of levels of the tree: 0 when empty, 1 for a root leaf
Height ==
    IF bpt.root = NilNode THEN 0
    ELSE LET ds == LeafDepths(bpt.root, 0, Len(nodes))
         IN  1 + CHOOSE d \in ds : \A e \in ds : e <= d

\* the last call: its arguments, what it returned, and what the caller knew
\* before it (the value it expected under the key, Size(), the height)
NoCall == [op |-> "", key |-> <<>>, val |-> NilVal, rv |-> NilVal, rok |-> FALSE,
           seq |-> <<>>, before |-> NilVal, sizeBefore |-> 0, heightBefore |-> 0,
           options |-> <<>>]

\* the shape of the calls made so far:
\*   "puts"    only Puts, each of a key the caller did not expect present
\*   "reputs"  only Puts, some of a key expected present
\*   "drain"   Puts as in "puts", then only Deletes of keys expected present
\*   "mixed"   anything else
HistAfterPut(h, present) ==
    IF h = "puts" /\ ~present THEN "puts"
    ELSE IF h \in {"puts", "reputs"} THEN "reputs"
    ELSE "mixed"

HistAfterDelete(h, present) ==
    IF h \in {"puts", "drain"} /\ present THEN "drain" ELSE "mixed"

\* the caller holds no iterator
NoIterator == [next |-> NilNode, i |-> 0]

\* the machine a call starts from
Machine == [bpt |-> bpt, nodes |-> nodes, pdata |-> pdata, err |-> "",
            rv |-> NilVal, rok |-> FALSE, rk |-> <<>>]

Init ==
    /\ ctor = "none"
    /\ bpt = ZeroTree
    /\ nodes = <<>>
    /\ pdata = <<>>
    /\ status = ""
    /\ call = NoCall
    /\ expected = [k \in Keys |-> NilVal]
    /\ hist = "puts"
    /\ nops = 0
    /\ iter = NoIterator

Construct ==
    /\ ctor = "none"
    /\ \E options \in OptionLists :
         LET r == NewBPlusTree(options)
         IN  /\ ctor' = IF r.err THEN "error" ELSE "ok"
             /\ bpt' = r.bpt
             /\ call' = [NoCall EXCEPT !.op = "NewBPlusTree", !.options = options]
    /\ UNCHANGED <<nodes, pdata, status, expected, hist, nops, iter>>

\* Get, Size and ForEach change nothing in the tree, so a caller that goes
\* on after one of them reaches no state of the tree it could not reach
\* without it: the caller makes its Put and Delete calls, may observe the
\* tree once at any point, and stops there.
Observed == call.op \in {"Get", "Size", "ForEach", "Iterator", "Next"}

\* the tree exists, no call has failed, and the caller has not stopped
Live == ctor = "ok" /\ status = "" /\ ~Observed

\* the tree and the call record after a call that ended with machine m
Returned(m, c) ==
    /\ bpt' = m.bpt
    /\ nodes' = m.nodes
    /\ pdata' = m.pdata
    /\ status' = m.err
    /\ call' = [c EXCEPT !.rv = m.rv, !.rok = m.rok]

DoPut ==
    /\ Live
    /\ nops < MaxOps
    /\ \E key \in Keys :
         /\ Returned(Collect(Put(Machine, key, ValueToPut(key, expected))),
                     [NoCall EXCEPT !.op = "Put", !.key = key,
                                    !.val = ValueToPut(key, expected),
                                    !.before = expected[key],
                                    !.sizeBefore = bpt.size,
                                    !.heightBefore = Height])
         /\ expected' = [expected EXCEPT ![key] = ValueToPut(key, expected)]
         /\ hist' = HistAfterPut(hist, expected[key] # NilVal)
    /\ nops' = nops + 1
    /\ UNCHANGED <<ctor, iter>>

DoDelete ==
    /\ Live
    /\ nops < MaxOps
    /\ \E key \in Keys :
         /\ Returned(Collect(Delete(Machine, key)),
                     [NoCall EXCEPT !.op = "Delete", !.key = key,
                                    !.before = expected[key],
                                    !.sizeBefore = bpt.size,
                                    !.heightBefore = Height])
         /\ expected' = [expected EXCEPT ![key] = NilVal]
         /\ hist' = HistAfterDelete(hist, expected[key] # NilVal)
    /\ nops' = nops + 1
    /\ UNCHANGED <<ctor, iter>>

\* one Get of a key of K
GetAny(K) ==
    /\ Live
    /\ \E key \in K :
         LET m == Get(Machine, key)
         IN  /\ status' = m.err
             /\ call' = [NoCall EXCEPT !.op = "Get", !.key = key,
                                       !.rv = m.rv, !.rok = m.rok,
                                       !.before = expected[key],
                                       !.sizeBefore = bpt.size]
    /\ UNCHANGED <<ctor, bpt, nodes, pdata, expected, hist, nops, iter>>

DoGet == GetAny(Keys)

DoSize ==
    /\ Live
    /\ call' = [NoCall EXCEPT !.op = "Size", !.rv = Size(Machine),
                              !.sizeBefore = bpt.size]
    /\ UNCHANGED <<ctor, bpt, nodes, pdata, status, expected, hist, nops, iter>>

DoForEach ==
    /\ Live
    /\ LET r == ForEach(Machine)
       IN  /\ status' = r.err
           /\ call' = [NoCall EXCEPT !.op = "ForEach", !.seq = r.seq,
                                     !.sizeBefore = bpt.size]
    /\ UNCHANGED <<ctor, bpt, nodes, pdata, expected, hist, nops, iter>>

\* the caller takes an iterator and, as long as no call has failed, calls
\* Next on it, whether HasNext() holds or not; the tree is not changed
\* while it does
DoIterator ==
    /\ Live
    /\ iter' = Iterator(Machine)
    /\ call' = [NoCall EXCEPT !.op = "Iterator", !.sizeBefore = bpt.size]
    /\ UNCHANGED <<ctor, bpt, nodes, pdata, status, expected, hist, nops>>

\* call.rok records HasNext() before the call, call.seq the pair returned
DoNext ==
    /\ ctor = "ok"
    /\ status = ""
    /\ call.op \in {"Iterator", "Next"}
    /\ LET r == IteratorNext(Machine, iter)
       IN  /\ iter' = r.it
           /\ status' = r.err
           /\ call' = [NoCall EXCEPT !.op = "Next", !.rok = HasNext(Machine, iter),
                                     !.seq = IF r.err = "" THEN <<r.pair>> ELSE <<>>,
                                     !.sizeBefore = bpt.size]
    /\ UNCHANGED <<ctor, bpt, nodes, pdata, expected, hist, nops>>

Next ==
    \/ Construct \/ DoPut \/ DoDelete \/ DoGet \/ DoSize \/ DoForEach
    \/ DoIterator \/ DoNext

Spec == Init /\ [][Next]_vars

----------------------------------------------------------------------------
(* The example scenario: the keys of testDatas are Put in their order, each  *)
(* with its key as value, on a tree of any order; the caller may observe    *)
(* the tree once at any point.                                               *)

\* "11", "18", "7", "15", "0", "16", "14" as bytes
ScenarioKeys == << <<49, 49>>, <<49, 56>>, <<55>>, <<49, 53>>, <<48>>, <<49, 54>>, <<49, 52>> >>

\* the value Put with a key is the key: values are named by the position of
\* their key in ScenarioKeys
ScenarioValue(k) == IndexIn(ScenarioKeys, k)

\* "0", "11", "14", "15", "16", "18", "7": the keys in byte order
ScenarioSorted == << <<48>>, <<49, 49>>, <<49, 52>>, <<49, 53>>, <<49, 54>>, <<49, 56>>, <<55>> >>

ScenarioInit ==
    /\ ctor = "none"
    /\ bpt = ZeroTree
    /\ nodes = <<>>
    /\ pdata = <<>>
    /\ status = ""
    /\ call = NoCall
    /\ expected = [k \in SeqRange(ScenarioKeys) |-> NilVal]
    /\ hist = "puts"
    /\ nops = 0
    /\ iter = NoIterator

ScenarioPut ==
    /\ Live
    /\ nops < Len(ScenarioKeys)
    /\ Returned(Collect(Put(Machine, ScenarioKeys[nops + 1],
                            ScenarioValue(ScenarioKeys[nops + 1]))),
                [NoCall EXCEPT !.op = "Put", !.key = ScenarioKeys[nops + 1],
                               !.val = ScenarioValue(ScenarioKeys[nops + 1]),
                               !.before = expected[ScenarioKeys[nops + 1]],
                               !.sizeBefore = bpt.size,
                               !.heightBefore = Height])
    /\ expected' = [expected EXCEPT ![ScenarioKeys[nops + 1]] =
                                       ScenarioValue(ScenarioKeys[nops + 1])]
    /\ hist' = HistAfterPut(hist, FALSE)
    /\ nops' = nops + 1
    /\ UNCHANGED <<ctor, iter>>

ScenarioGet == GetAny(SeqRange(ScenarioKeys))

ScenarioNext == Construct \/ ScenarioPut \/ ScenarioGet \/ DoSize \/ DoForEach

ScenarioSpec == ScenarioInit /\ [][ScenarioNext]_vars

----------------------------------------------------------------------------
(* Scripts: a caller that makes the Put and Delete calls of a sequence in    *)
(* their order on a tree of any order; it may observe the tree once at any   *)
(* point. The value of a Put is named by the position of the call.           *)

PutOf(key) == <<"Put", key>>

DeleteOf(key) == <<"Delete", key>>

ScriptKeys(calls) == {calls[i][2] : i \in DOMAIN calls}

ScriptInit(calls) ==
    /\ ctor = "none"
    /\ bpt = ZeroTree
    /\ nodes = <<>>
    /\ pdata = <<>>
    /\ status = ""
    /\ call = NoCall
    /\ expected = [k \in ScriptKeys(calls) |-> NilVal]
    /\ hist = "puts"
    /\ nops = 0
    /\ iter = NoIterator

\* Put(key, value), the next call of the script
PutNext(key, value) ==
    /\ Returned(Collect(Put(Machine, key, value)),
                [NoCall EXCEPT !.op = "Put", !.key = key, !.val = value,
                               !.before = expected[key],
                               !.sizeBefore = bpt.size,
                               !.heightBefore = Height])
    /\ expected' = [expected EXCEPT ![key] = value]
    /\ hist' = HistAfterPut(hist, expected[key] # NilVal)

ScriptPut(calls) ==
    /\ Live
    /\ nops < Len(calls)
    /\ calls[nops + 1][1] = "Put"
    /\ PutNext(calls[nops + 1][2], nops + 1)
    /\ nops' = nops + 1
    /\ UNCHANGED <<ctor, iter>>

\* Delete(key), the next call of the script
DeleteNext(key) ==
    /\ Returned(Collect(Delete(Machine, key)),
                [NoCall EXCEPT !.op = "Delete", !.key = key,
                               !.before = expected[key],
                               !.sizeBefore = bpt.size,
                               !.heightBefore = Height])
    /\ expected' = [expected EXCEPT ![key] = NilVal]
    /\ hist' = HistAfterDelete(hist, expected[key] # NilVal)

ScriptDelete(calls) ==
    /\ Live
    /\ nops < Len(calls)
    /\ calls[nops + 1][1] = "Delete"
    /\ DeleteNext(calls[nops + 1][2])
    /\ nops' = nops + 1
    /\ UNCHANGED <<ctor, iter>>

(* A tree with four leaves under one parent: eight keys are Put in ascending *)
(* order and three of them deleted, so that at order 4 the first leaf runs   *)
(* empty next to a leaf with the minimum of keys and the two are merged.     *)

MergeCalls ==
    << PutOf(<<>>), PutOf(<<1>>), PutOf(<<2>>), PutOf(<<3>>), PutOf(<<4>>),
       PutOf(<<5>>), PutOf(<<6>>), PutOf(<<7>>),
       DeleteOf(<<3>>), DeleteOf(<<1>>), DeleteOf(<<>>) >>

MergeInit == ScriptInit(MergeCalls)

MergeNext ==
    \/ Construct \/ ScriptPut(MergeCalls) \/ ScriptDelete(MergeCalls)
    \/ GetAny(ScriptKeys(MergeCalls)) \/ DoSize \/ DoForEach

MergeSpec == MergeInit /\ [][MergeNext]_vars

(* A tree of three leaves that is emptied from the right: at order 3 the     *)
(* second leaf and then the first run empty next to leaves with the minimum  *)
(* of keys.                                                                  *)

DrainCalls ==
    << PutOf(<<>>), PutOf(<<3>>), PutOf(<<1>>), PutOf(<<2>>),
       DeleteOf(<<2>>), DeleteOf(<<1>>), DeleteOf(<<>>) >>

DrainInit == ScriptInit(DrainCalls)

DrainNext ==
    \/ Construct \/ ScriptPut(DrainCalls) \/ ScriptDelete(DrainCalls)
    \/ GetAny(ScriptKeys(DrainCalls)) \/ DoSize \/ DoForEach \/ DoIterator \/ DoNext

DrainSpec == DrainInit /\ [][DrainNext]_vars

(* A tree whose first leaf is merged with its right sibling and filled       *)
(* again, before the keys of the sibling are deleted: at order 3 the last    *)
(* Delete makes the sibling borrow from the first leaf.                      *)

RefillCalls ==
    << PutOf(<<>>), PutOf(<<2>>), PutOf(<<1>>), PutOf(<<3>>), DeleteOf(<<>>),
       PutOf(<<>>), PutOf(<<2>>), DeleteOf(<<2>>), DeleteOf(<<1>>) >>

RefillInit == ScriptInit(RefillCalls)

RefillNext ==
    \/ Construct \/ ScriptPut(RefillCalls) \/ ScriptDelete(RefillCalls)
    \/ GetAny(ScriptKeys(RefillCalls)) \/ DoSize \/ DoForEach \/ DoIterator \/ DoNext

RefillSpec == RefillInit /\ [][RefillNext]_vars

----------------------------------------------------------------------------
(* What the claims speak of *)

\* the keys the caller expects the tree to hold
ExpectedKeys == {k \in Keys : expected[k] # NilVal}

\* Get(k) on the current tree returns (v, ok) without failing
GetReturns(k, v, ok) ==
    LET g == Get(Machine, k) IN g.err = "" /\ g.rok = ok /\ g.rv = v

\* the child pointers of node n: slots 0..keyNums of an internal node
ChildSlots(n) == IF nodes[n].leaf THEN {} ELSE 0..nodes[n].keyNums

Children(n) ==
    {nodes[n].pointers[i].ref :
        i \in {j \in ChildSlots(n) \cap DOMAIN nodes[n].pointers :
                  IsNodeP(nodes[n].pointers[j])}}

\* the nodes reachable from the nodes of S by child pointers
RECURSIVE Below(_)
Below(S) ==
    LET T == S \cup UNION {Children(n) : n \in S}
    IN  IF T = S THEN S ELSE Below(T)

\* the nodes of the tree
TreeNodes == IF bpt.root = NilNode THEN {} ELSE Below({bpt.root})

\* the keys ForEach hands to its action, in order
Visited(r) == [i \in 1..Len(r.seq) |-> r.seq[i][1]]

StrictlyAscending(q) == \A i \in 1..(Len(q) - 1) : Compare(q[i], q[i + 1]) < 0

\* the keys in use in node n
KeysOf(n) == {nodes[n].keys[j] : j \in (0..(nodes[n].keyNums - 1)) \cap DOMAIN nodes[n].keys}

\* the keys stored in the leaves of the subtree rooted at node n
SubtreeKeys(n) == UNION {KeysOf(l) : l \in {x \in Below({n}) : nodes[x].leaf}}

\* k is the least key of S in byte order
IsMinimum(k, S) == k \in S /\ \A e \in S : Compare(k, e) <= 0

\* the internal nodes of the tree
InternalNodes == {n \in TreeNodes : ~nodes[n].leaf}

\* the leaf reached from node n by always following child pointer 0;
\* NilNode when a slot on the way holds no node
RECURSIVE LeftmostLeaf(_, _)
LeftmostLeaf(n, fuel) ==
    IF nodes[n].leaf THEN n
    ELSE IF fuel > 0 /\ IsNodeP(nodes[n].pointers[0])
    THEN LeftmostLeaf(nodes[n].pointers[0].ref, fuel - 1)
    ELSE NilNode

\* the trailing slot of node n, pointers[len(pointers)-1]
LastSlot(n) == nodes[n].pointers[Cardinality(DOMAIN nodes[n].pointers) - 1]

\* the leaves met from leaf n on by following the trailing links up to a
\* nil link; -1 closes the sequence when a link holds no leaf and no nil,
\* or when the links do not end
RECURSIVE LeafChain(_, _)
LeafChain(n, fuel) ==
    IF fuel = 0 THEN <<-1>>
    ELSE IF LastSlot(n) = NilP THEN <<n>>
    ELSE IF IsNodeP(LastSlot(n)) /\ nodes[LastSlot(n).ref].leaf
    THEN <<n>> \o LeafChain(LastSlot(n).ref, fuel - 1)
    ELSE <<n, -1>>

\* the keys in use in node n, in slot order
KeySeqOf(n) == [j \in 1..nodes[n].keyNums |-> nodes[n].keys[j - 1]]

\* the keys of the leaves of chain c, in the order of the chain
RECURSIVE ChainKeys(_)
ChainKeys(c) == IF c = <<>> THEN <<>> ELSE KeySeqOf(Head(c)) \o ChainKeys(Tail(c))

\* the leaves of the tree
Leaves == {n \in TreeNodes : nodes[n].leaf}

\* the pointer slots (parent, index) of internal nodes of the tree that
\* refer to node c
SlotsOf(c) ==
    {s \in InternalNodes \X (0..bpt.order) :
        /\ s[2] \in ChildSlots(s[1]) \cap DOMAIN nodes[s[1]].pointers
        /\ nodes[s[1]].pointers[s[2]] = NodeP(c)}

\* the entries of leaf n in machine m, in slot order: each key in use with
\* the value its pointer holds, -1 where the pointer holds no value
EntriesOf(m, n) ==
    [j \in 1..RdKeyNums(m, n) |->
        <<RdKey(m, n, j - 1),
          IF IsValP(RdPtr(m, n, j - 1)) THEN m.pdata[RdPtr(m, n, j - 1).ref] ELSE -1>>]

\* sequence q with e put in before its element pos + 1
InsertAtSeq(q, pos, e) ==
    [j \in 1..(Len(q) + 1) |-> IF j <= pos THEN q[j] ELSE IF j = pos + 1 THEN e ELSE q[j - 1]]

\* the keys of a sequence of entries
EntryKeys(q) == [j \in 1..Len(q) |-> q[j][1]]

\* r is machine m after putIntoLeafAndSplit(n, insertPos, k, v) with the new
\* leaf right, and all is the old entries of n with (k, v) put in at
\* insertPos: n has the first ceil((order-1)/2) of them and right the others
SplitOf(m, n, r, right, all) ==
    /\ ~Failed(r)
    /\ RdKeyNums(r, n) = ceil(m.bpt.order - 1, 2)
    /\ EntriesOf(r, n) \o EntriesOf(r, right) = all
    /\ StrictlyAscending(EntryKeys(all))
    /\ RdKey(r, right, 0) = all[ceil(m.bpt.order - 1, 2) + 1][1]

\* leaf n of machine m is full, each of its keys has its value, and key k
\* is not in it but belongs at insertPos f.pos
FullLeafFor(m, n, f) ==
    /\ ~f.bad /\ ~f.hit
    /\ RdKeyNums(m, n) = m.bpt.order - 1
    /\ \A j \in 1..RdKeyNums(m, n) : EntriesOf(m, n)[j][2] # -1
    /\ StrictlyAscending(EntryKeys(EntriesOf(m, n)))

\* putIntoLeafAndSplit of key k with value v on the leaf n of machine m,
\* when n is full, does what inserting and then splitting does
SplitsAsInsertThenSplit(m, n, k, v, f) ==
    FullLeafFor(m, n, f) =>
        SplitOf(m, n, putIntoLeafAndSplit(m, n, f.pos, k, v), NewNodeId(m),
                InsertAtSeq(EntriesOf(m, n), f.pos, <<k, v>>))

\* the same for the leaf findLeafByKey gives for k
PutSplitsLeaf(m, k, v, l) ==
    l.err = "" => SplitsAsInsertThenSplit(m, l.n, k, v, leafPosition(m, l.n, k, 0))

\* the children of internal node p in machine m, in slot order
ChildSeq(m, p) == [j \in 1..(RdKeyNums(m, p) + 1) |-> RdPtr(m, p, j - 1)]

\* sequence q without its element pos
RemoveAtSeq(q, pos) == [j \in 1..(Len(q) - 1) |-> IF j < pos THEN q[j] ELSE q[j + 1]]

\* the sibling s names on one side of the node exists and has more than
\* minKeyNum keys
LeftHasSpare(m, s) ==
    s.hasLeft /\ ~s.badLeft /\ RdKeyNums(m, s.leftSibling) > m.bpt.minKeyNum

RightHasSpare(m, s) ==
    s.hasRight /\ ~s.badRight /\ RdKeyNums(m, s.rightSibling) > m.bpt.minKeyNum

\* from machine m to machine r leaf n has taken the last entry of its left
\* sibling and the parent has kept its children
BorrowedLeft(m, n, s, r) ==
    /\ EntriesOf(r, n) = <<EntriesOf(m, s.leftSibling)[RdKeyNums(m, s.leftSibling)]>>
                             \o EntriesOf(m, n)
    /\ EntriesOf(r, s.leftSibling) =
           SubSeq(EntriesOf(m, s.leftSibling), 1, RdKeyNums(m, s.leftSibling) - 1)
    /\ ChildSeq(r, s.parent) = ChildSeq(m, s.parent)

\* the same with the first entry of the right sibling
BorrowedRight(m, n, s, r) ==
    /\ EntriesOf(r, n) = Append(EntriesOf(m, n), EntriesOf(m, s.rightSibling)[1])
    /\ EntriesOf(r, s.rightSibling) = Tail(EntriesOf(m, s.rightSibling))
    /\ ChildSeq(r, s.parent) = ChildSeq(m, s.parent)

\* parent p has enough keys in machine m to give one up without being
\* rebalanced itself
CanSpareKey(m, p) ==
    IF RdParent(m, p) = NilNode THEN RdKeyNums(m, p) >= 2
    ELSE RdKeyNums(m, p) - 1 >= m.bpt.minKeyNum

\* from machine m to machine r leaf left has taken in the entries of leaf
\* right, and the parent, where it is not rebalanced itself, has lost one
\* key and the pointer to right, at position pos
MergedInto(m, left, right, parent, pos, r) ==
    /\ EntriesOf(r, left) = EntriesOf(m, left) \o EntriesOf(m, right)
    /\ CanSpareKey(m, parent) =>
          /\ RdKeyNums(r, parent) = RdKeyNums(m, parent) - 1
          /\ ChildSeq(r, parent) = RemoveAtSeq(ChildSeq(m, parent), pos + 1)

\* r is machine m after rebalancedFromLeafNode(n), s the siblings of n in m:
\* n has borrowed from the left sibling if that has keys to spare, else
\* from the right one if that has, else it was merged, into its left
\* sibling if it has one
RebalancedLeaf(m, n, s, r) ==
    /\ s.pointerPositionInParent >= 0
    /\ s.hasLeft \/ s.hasRight
    /\ ~Failed(r)
    /\ IF LeftHasSpare(m, s) THEN BorrowedLeft(m, n, s, r)
       ELSE IF RightHasSpare(m, s) THEN BorrowedRight(m, n, s, r)
       ELSE IF s.hasLeft
       THEN MergedInto(m, s.leftSibling, n, s.parent, s.pointerPositionInParent, r)
       ELSE MergedInto(m, n, s.rightSibling, s.parent, s.rightSiblingPosition, r)

\* leaf n of machine m, below the root, as Delete has left it after
\* n.deleteAt: if it has fewer than minKeyNum keys, rebalancedFromLeafNode
\* does with it what RebalancedLeaf says
RebalancesLeaf(m, n) ==
    (~Failed(m) /\ RdParent(m, n) # NilNode /\ RdKeyNums(m, n) < m.bpt.minKeyNum) =>
        RebalancedLeaf(m, n, siblings(m, n), rebalancedFromLeafNode(m, n))

\* the same for the leaf l.n that findLeafByKey gives for key k, if it holds
\* k with a value
DeleteRebalances(m, k, l) ==
    (l.err = "" /\ keyPosition(m, l.n, k) >= 0
                /\ IsValP(RdPtr(m, l.n, keyPosition(m, l.n, k)))) =>
        RebalancesLeaf(deleteAt(m, l.n, keyPosition(m, l.n, k), keyPosition(m, l.n, k)), l.n)

----------------------------------------------------------------------------
(* The claims *)

\* C1: after any sequence of Put calls on a new tree, Get(k) of every key k
\* that was Put returns found = true and the value of the latest Put(k, .).
C1_GetAfterPuts ==
    (Live /\ hist \in {"puts", "reputs"}) =>
        \A k \in ExpectedKeys : GetReturns(k, expected[k], TRUE)

\* C2: after any sequence of Put and Delete calls, ForEach visits the keys in
\* strictly ascending byte order and visits exactly the keys currently
\* stored, each once.
C2_ForEachVisitsLiveKeys ==
    Live =>
        LET r == ForEach(Machine)
        IN  /\ r.err = ""
            /\ StrictlyAscending(Visited(r))
            /\ SeqRange(Visited(r)) = ExpectedKeys

\* C3: Delete(k) of a key k stored with value v returns (v, true), Size()
\* decreases by exactly one and a following Get(k) reports not-found.
C3_DeletePresent ==
    (ctor = "ok" /\ call.op = "Delete" /\ call.before # NilVal) =>
        /\ status = ""
        /\ call.rok
        /\ call.rv = call.before
        /\ bpt.size = call.sizeBefore - 1
        /\ GetReturns(call.key, NilVal, FALSE)

\* C4: Put(k, v2) of a key k that holds v1 (also when k was the first key
\* ever inserted) returns (v1, true), leaves Size() unchanged, and a
\* following Get(k) returns (v2, true).
C4_PutOverrides ==
    (ctor = "ok" /\ call.op = "Put" /\ call.before # NilVal) =>
        /\ status = ""
        /\ call.rok
        /\ call.rv = call.before
        /\ bpt.size = call.sizeBefore
        /\ GetReturns(call.key, call.val, TRUE)

\* C5: Delete(k) of a key k that is not stored, on an empty or non-empty
\* tree, returns (absent, false) and leaves Size() unchanged.
C5_DeleteAbsent ==
    (ctor = "ok" /\ call.op = "Delete" /\ call.before = NilVal) =>
        /\ status = ""
        /\ ~call.rok
        /\ call.rv = NilVal
        /\ bpt.size = call.sizeBefore

\* C6: after any sequence of Put calls on a new tree, Size() is the number
\* of distinct keys that were Put.
C6_SizeAfterPuts ==
    (Live /\ hist \in {"puts", "reputs"}) => Size(Machine) = Cardinality(ExpectedKeys)

\* C7: round trip: after Puts of distinct keys, every Delete of one of them
\* returns removed = true and the value Put for it, and once all are
\* deleted the tree is empty: Size() = 0 and the root is nil.
C7_RoundTrip ==
    (ctor = "ok" /\ hist = "drain") =>
        /\ call.op = "Delete" => (status = "" /\ call.rok /\ call.rv = call.before)
        /\ ExpectedKeys = {} => (bpt.size = 0 /\ bpt.root = NilNode)

\* C8: after every completed Put or Delete every non-root node holds at
\* least minKeyNum = ceil(order/2) - 1 and at most order - 1 keys, and the
\* root holds at most order - 1 keys.
C8_Occupancy ==
    Live =>
        /\ bpt.minKeyNum = ceil(bpt.order, 2) - 1
        /\ \A n \in TreeNodes :
              /\ nodes[n].keyNums <= bpt.order - 1
              /\ n # bpt.root => nodes[n].keyNums >= bpt.minKeyNum

\* C9: after every completed Put or Delete all leaves reachable from the
\* root by child pointers are at the same depth; a Put leaves the height
\* as it was or adds one level, a Delete leaves it or removes one level.
C9_LeavesAtOneDepth ==
    Live =>
        /\ bpt.root # NilNode =>
              \E d \in 0..Len(nodes) : LeafDepths(bpt.root, 0, Len(nodes)) = {d}
        /\ call.op = "Put" => Height \in {call.heightBefore, call.heightBefore + 1}
        /\ call.op = "Delete" => Height \in {call.heightBefore, call.heightBefore - 1}

\* C9, witness: a Put has split the internal root and put a new root above
\* it: the tree has three levels.
C9_Witness ==
    Live /\ call.op = "Put" /\ call.heightBefore = 2 /\ Height = 3

\* C9, second case reached: a Delete has emptied the internal root and
\* promoted its only child.
C9_Shrinks ==
    Live /\ call.op = "Delete" /\ call.heightBefore = 2 /\ Height = 1

\* C10: NewBPlusTree with an order below 3 fails and returns no tree; with
\* orders of 3 or more it succeeds with the order given (the last one given);
\* without an option the order is 4; a tree that was built is empty.
C10_Construction ==
    call.op = "NewBPlusTree" =>
        LET opts == call.options
        IN  /\ (\E i \in DOMAIN opts : opts[i] < 3) => (ctor = "error" /\ bpt = ZeroTree)
            /\ (\A i \in DOMAIN opts : opts[i] >= 3) =>
                  /\ ctor = "ok"
                  /\ bpt.order = IF opts = <<>> THEN 4 ELSE opts[Len(opts)]
            /\ ctor = "ok" =>
                  /\ bpt.root = NilNode
                  /\ Size(Machine) = 0
                  /\ ForEach(Machine) = [err |-> "", seq |-> <<>>]
                  /\ \A k \in Keys : GetReturns(k, NilVal, FALSE)

\* C10, witness: NewBPlusTree(SetOrder(2)) has returned an error.
C10_Witness ==
    call.op = "NewBPlusTree" /\ call.options = <<2>> /\ ctor = "error"

\* C11: in the example scenario on a tree of order 3 every Put completes,
\* and after the seven Puts Get("7") returns ("7", true) and ForEach visits
\* exactly "0", "11", "14", "15", "16", "18", "7", in that order.
C11_Scenario ==
    (ctor = "ok" /\ bpt.order = 3) =>
        /\ call.op = "Put" => status = ""
        /\ (Live /\ nops = Len(ScenarioKeys)) =>
              /\ GetReturns(<<55>>, ScenarioValue(<<55>>), TRUE)
              /\ ForEach(Machine) =
                    [err |-> "",
                     seq |-> [i \in 1..Len(ScenarioSorted) |->
                                <<ScenarioSorted[i], ScenarioValue(ScenarioSorted[i])>>]]

\* C12: the zero-length key is a key like any other: Get of it returns the
\* value of the latest Put of it, and reports not-found before any Put of
\* it and after a Delete of it.
C12_ZeroLengthKey ==
    Live =>
        IF expected[<<>>] # NilVal
        THEN GetReturns(<<>>, expected[<<>>], TRUE)
        ELSE GetReturns(<<>>, NilVal, FALSE)

\* C13: after Put(nil, v) as the first call on a new tree, Get(nil) returns
\* (nil, false).  (bytes.Compare and copy, the only operations the tree
\* applies to a key, treat nil as zero-length: the nil key is <<>>.)
C13_NilKeyNotFound ==
    (Live /\ nops = 1 /\ call.op = "Put" /\ call.key = <<>>) =>
        GetReturns(<<>>, NilVal, FALSE)

\* C14: a call of Next made when HasNext() is false ends in a panic and
\* returns no pair, and HasNext() is false after it as it was before.
C14_NextPastTheEnd ==
    (call.op = "Next" /\ ~call.rok) =>
        /\ status = "panic"
        /\ call.seq = <<>>
        /\ ~HasNext(Machine, iter)

\* C14, witness: Next has panicked on an iterator that was exhausted by
\* earlier calls of Next (a new iterator on this tree has a next element).
C14_Witness ==
    /\ call.op = "Next" /\ ~call.rok /\ status = "panic"
    /\ HasNext(Machine, Iterator(Machine))

\* C15: on a constructed tree no call of Put, Get, Delete, Size or ForEach
\* panics (a slot read as the wrong kind, a nil slot dereferenced, an index
\* out of range).
C15_NoPanic ==
    (ctor = "ok" /\ call.op \in {"Put", "Get", "Delete", "Size", "ForEach"}) =>
        status # "panic"

\* C16: after every completed Put or Delete, the separator key at index i
\* of every internal node is the minimum key of the subtree under its
\* pointers[i+1]; after Delete(k) no internal node holds k as a separator.
C16_Separators ==
    (Live /\ call.op \in {"Put", "Delete"}) =>
        /\ \A n \in InternalNodes : \A i \in 0..(nodes[n].keyNums - 1) :
              /\ IsNodeP(nodes[n].pointers[i + 1])
              /\ IsMinimum(nodes[n].keys[i], SubtreeKeys(nodes[n].pointers[i + 1].ref))
        /\ call.op = "Delete" => \A n \in InternalNodes : call.key \notin KeysOf(n)

\* C17: after every completed Put or Delete on a non-empty tree the
\* trailing slot of every leaf holds a leaf or nil, never a value, and the
\* trailing links from the leftmost leaf visit every leaf of the tree once,
\* in ascending key order, and end at nil.
C17_LeafChain ==
    (Live /\ call.op \in {"Put", "Delete"} /\ bpt.root # NilNode) =>
        /\ \A n \in Leaves : ~IsValP(LastSlot(n))
        /\ LeftmostLeaf(bpt.root, Len(nodes)) # NilNode
        /\ LET c == LeafChain(LeftmostLeaf(bpt.root, Len(nodes)), Len(nodes) + 1)
           IN  /\ SeqRange(c) = Leaves
               /\ Len(c) = Cardinality(Leaves)
               /\ StrictlyAscending(ChainKeys(c))

\* C18: after every completed Put or Delete every child slot of an internal
\* node holds a node whose parent is that internal node, every node but the
\* root is referred to by exactly one slot of one parent, and the parent of
\* the root is nil.
C18_Parents ==
    (Live /\ call.op \in {"Put", "Delete"}) =>
        /\ \A n \in InternalNodes : \A i \in ChildSlots(n) :
              /\ IsNodeP(nodes[n].pointers[i])
              /\ nodes[nodes[n].pointers[i].ref].parent = n
        /\ \A c \in TreeNodes \ {bpt.root} : Cardinality(SlotsOf(c)) = 1
        /\ bpt.root # NilNode =>
              (nodes[bpt.root].parent = NilNode /\ SlotsOf(bpt.root) = {})

\* C19: whenever the tree is not empty after a completed Put or Delete,
\* mostLeftNode is the leaf reached from the root by always following child
\* pointer 0.
C19_MostLeftNode ==
    (Live /\ call.op \in {"Put", "Delete"} /\ bpt.root # NilNode) =>
        /\ bpt.mostLeftNode # NilNode
        /\ bpt.mostLeftNode = LeftmostLeaf(bpt.root, Len(nodes))

\* C19, witness: a Delete has merged the two leaves of a tree of two
\* levels and made the surviving leaf the root; it is mostLeftNode.
C19_Witness ==
    /\ Live /\ call.op = "Delete" /\ call.heightBefore = 2 /\ Height = 1
    /\ bpt.mostLeftNode = bpt.root

\* C20: a Put of a new key into a full leaf (order - 1 keys) leaves the
\* first ceil((order-1)/2) entries in the old leaf and the others in the new
\* right leaf; the entries of the two, left then right, are the old entries
\* and the new one in ascending key order, each key with its own value; the
\* key handed to the parent is the first key of the right leaf.
C20_SplitLeaf ==
    (Live /\ bpt.root # NilNode) =>
        \A k \in Keys :
            PutSplitsLeaf(Machine, k, ValueToPut(k, expected), findLeafByKey(Machine, k))

\* C21: when a Delete leaves a leaf below the root with fewer than minKeyNum
\* keys, the leaf borrows one entry from its left sibling if that exists and
\* has more than minKeyNum keys, otherwise from its right sibling under the
\* same condition; otherwise it is merged, into its left sibling if it has
\* one, and the parent loses one separator and the pointer to the node that
\* was folded into the other.
C21_BorrowOrMerge ==
    (Live /\ bpt.root # NilNode) =>
        \A k \in Keys : DeleteRebalances(Machine, k, findLeafByKey(Machine, k))

\* C22: after every completed Delete a root that is not nil holds at least
\* one key and has no parent, the tree has lost at most one level, and the
\* root is nil exactly when the leaves of the tree hold no key.
C22_Root ==
    (Live /\ call.op = "Delete") =>
        /\ bpt.root # NilNode =>
              (nodes[bpt.root].keyNums >= 1 /\ nodes[bpt.root].parent = NilNode)
        /\ Height >= call.heightBefore - 1
        /\ (bpt.root = NilNode) <=> (UNION {KeysOf(l) : l \in Leaves} = {})

\* C23: every call of Put, Get and Delete on a tree reached by completed
\* calls comes to an end, for every key: no loop of it runs for ever.
C23_Terminates ==
    (ctor = "ok" /\ call.op \in {"Put", "Get", "Delete"}) => status # "hang"

\* the lookup of key gives the same outcome on the tree m and on the tree r
SameLookup(m, r, key) ==
    \A a \in {Get(m, key)} : \A b \in {Get(r, key)} :
        /\ a.err = b.err
        /\ a.err = "" => (a.rok = b.rok /\ a.rv = b.rv)

\* the trees r that the operations on key make of the tree m, where the
\* operation completes
AfterPutOrDelete(m, key) ==
    {r \in {Delete(m, key)} \cup {Put(m, key, v) : v \in Values} : r.err = ""}

\* C24: Put(k, .) and Delete(k) change the lookup result of no other key:
\* for every key k' other than k, Get(k') returns the same before and after
\* the operation.
C24_OtherKeysKeep ==
    Live => \A k \in Keys : \A r \in AfterPutOrDelete(Machine, k) :
                \A k2 \in Keys \ {k} : SameLookup(Machine, r, k2)

\* the traversal r visits the pair of key and value
VisitsPair(r, key, value) == \E i \in DOMAIN r.seq : r.seq[i] = <<key, value>>

\* the lookup g of key and the traversal r agree: what Get found is visited,
\* and every visit of key is what Get found
GetAgrees(r, g, key) ==
    /\ g.rok => VisitsPair(r, key, g.rv)
    /\ \A i \in DOMAIN r.seq :
           r.seq[i][1] = key => (g.rok /\ g.rv = r.seq[i][2])

\* C25: after any sequence of completed Put and Delete calls, Get(k) returns
\* (v, true) exactly when a ForEach started at that moment visits (k, v);
\* stated for the lookups and traversals that complete.
C25_GetIffVisited ==
    Live => \A r \in {ForEach(Machine)} : \A k \in Keys :
                \A g \in {Get(Machine, k)} :
                    (r.err = "" /\ g.err = "") => GetAgrees(r, g, k)

====
